---- MODULE Spec2Model ----
(***************************************************************************)
(* Model of the claxondec element (gst-plugin-claxon/src/claxondec.rs):    *)
(* the session state cell, the four AudioDecoderImpl entry points (start,  *)
(* stop, set_format, handle_frame) and the helpers they call               *)
(* (handle_streaminfo_header, handle_data, get_claxon_streaminfo,          *)
(* get_gstaudioinfo, FLAC_CHANNEL_POSITIONS).                              *)
(*                                                                         *)
(* Buffers are sequences of bytes (0..255), indexed from 1 where the       *)
(* source indexes from 0.  The claxon calls are modelled at their call     *)
(* sites: the metadata reader by the STREAMINFO block layout it reads, the *)
(* frame reader by an outcome the environment chooses (end of stream, an   *)
(* error, or a decoded block together with the number of bytes consumed).  *)
(* The host (the AudioDecoder base class) answers set_output_format,       *)
(* negotiate, finish_frame and the decoder-error report nondeterministically.*)
(* A panic (failed index, failed assert_eq!, unreachable!, failed unwrap)   *)
(* ends the session: no entry point runs after it.                         *)
(***************************************************************************)
EXTENDS Integers, Sequences, FiniteSets, TLC

\* ------------------------------------------------------------------ bounds

\* largest number of channels of a decoded block the frame reader may return
MaxBlockChannels == 3
\* largest number of samples per channel of a decoded block
MaxBlockSize == 2
\* largest channel count handed to get_gstaudioinfo in the resolver specification
MaxResolveChannels == 10
\* largest bits_per_sample handed to get_gstaudioinfo in the resolver specification
MaxResolveBits == 33

\* ------------------------------------------------------------------ values

\* Option<T>: None is the empty sequence, Some(x) the one-element sequence
None == <<>>

Some(x) == <<x>>

\* Option<T>::is_some
IsSome(o) == o # <<>>

\* the value inside Some(x)
Unwrap(o) == o[1]

\* the decoded sample values the frame reader's blocks are filled from (i32)
Samples ==
  <<0, -1, 127, -128, 128, -129, 32767, -32768, 32768, -32769,
    8388607, -8388608, 2147483647, -2147483647 - 1>>

\* positions in Samples at which a block's contents start
SeedStarts == {2, 4, 6, 8}

\* ------------------------------------------------------------------ bytes

\* inmap[0] & 0x7F
And7F(b) == b % 128

\* inmap[1] & 0b1111_1100
AndFC(b) == (b \div 4) * 4

\* the slice indata[n..] (0-based start n)
SliceFrom(s, n) == SubSeq(s, n + 1, Len(s))

\* the slice indata[0..n]
SliceTo(s, n) == SubSeq(s, 1, n)

\* b"fLaC"
FLAC_MARKER == <<102, 76, 97, 67>>

\* [0x7f, b'F', b'L', b'A', b'C', 0x01, 0x00]
IDENT_TAG == <<127, 70, 76, 65, 67, 1, 0>>

\* big-endian integers read by the metadata reader
BE16(s, i) == s[i] * 256 + s[i + 1]

BE24(s, i) == s[i] * 65536 + s[i + 1] * 256 + s[i + 2]

\* ------------------------------------------------------------------ claxon::metadata

\* claxon::metadata::StreamInfo, the fields the element reads
StreamInfo(rate, ch, bps) ==
  [sample_rate |-> rate, channels |-> ch, bits_per_sample |-> bps]

\* A STREAMINFO metadata block as it arrives in a buffer: the 4-byte block
\* header (is_last flag and block type 0, 24-bit length 34) and the 34-byte
\* body (block sizes, frame sizes, 20-bit sample rate, 3-bit channels - 1,
\* 5-bit bits per sample - 1, 36-bit sample count, 16-byte MD5).
StreamInfoBlock(last, rate, ch, bps) ==
  <<last * 128, 0, 0, 34>> \o
  <<16, 0, 16, 0>> \o
  <<0, 0, 0, 0, 0, 0>> \o
  <<rate \div 4096,
    (rate \div 16) % 256,
    (rate % 16) * 16 + (ch - 1) * 2 + ((bps - 1) \div 16),
    ((bps - 1) % 16) * 16>> \o
  <<0, 0, 0, 0>> \o
  <<0, 0, 0, 0, 0, 0, 0, 0, 0, 0, 0, 0, 0, 0, 0, 0>>

\* MetadataBlockReader::next() on a cursor over indata, as far as the element
\* looks at it: Some(Ok(StreamInfo(info))) with the cursor position after the
\* block, or anything else (an I/O or format error, a block of another type).
MetadataNext(indata) ==
  IF Len(indata) < 4 THEN [streaminfo |-> None, position |-> Len(indata)]
  ELSE IF And7F(indata[1]) # 0 THEN [streaminfo |-> None, position |-> 4]
  ELSE IF BE24(indata, 2) # 34 THEN [streaminfo |-> None, position |-> 4]
  ELSE IF Len(indata) < 38 THEN [streaminfo |-> None, position |-> Len(indata)]
  ELSE
    LET min_block_size == BE16(indata, 5)
        max_block_size == BE16(indata, 7)
        min_frame_size == BE24(indata, 9)
        max_frame_size == BE24(indata, 12)
        sample_rate == BE16(indata, 15) * 16 + (indata[17] \div 16)
        n_channels == ((indata[17] \div 2) % 8) + 1
        bits_per_sample == ((indata[17] % 2) * 16 + (indata[18] \div 16)) + 1
    IN IF \/ min_block_size > max_block_size
          \/ min_block_size < 16
          \/ (min_frame_size > max_frame_size /\ max_frame_size # 0)
          \/ sample_rate = 0
          \/ sample_rate > 655350
       THEN [streaminfo |-> None, position |-> 38]
       ELSE [streaminfo |-> Some(StreamInfo(sample_rate, n_channels, bits_per_sample)),
             position |-> 38]

\* Result values of the helpers: Ok(v), Err, or a panic
Ok(v) == [tag |-> "Ok", v |-> v]

Err == [tag |-> "Err"]

Panic == [tag |-> "Panic"]

\* fn get_claxon_streaminfo(indata: &[u8])
get_claxon_streaminfo(indata) ==
  LET r == MetadataNext(indata)
  IN IF ~IsSome(r.streaminfo) THEN Err
     ELSE IF r.position # Len(indata) THEN Panic
     ELSE Ok(Unwrap(r.streaminfo))

\* ------------------------------------------------------------------ gst_audio

\* FLAC_CHANNEL_POSITIONS with the last two entries of the 7-channel row swapped
FLAC_CHANNEL_POSITIONS_Swapped7 ==
  << <<"Mono", "Invalid", "Invalid", "Invalid",
       "Invalid", "Invalid", "Invalid", "Invalid">>,
     <<"FrontLeft", "FrontRight", "Invalid", "Invalid",
       "Invalid", "Invalid", "Invalid", "Invalid">>,
     <<"FrontLeft", "FrontCenter", "FrontRight", "Invalid",
       "Invalid", "Invalid", "Invalid", "Invalid">>,
     <<"FrontLeft", "FrontRight", "RearLeft", "RearRight",
       "Invalid", "Invalid", "Invalid", "Invalid">>,
     <<"FrontLeft", "FrontCenter", "FrontRight", "RearLeft",
       "RearRight", "Invalid", "Invalid", "Invalid">>,
     <<"FrontLeft", "FrontCenter", "FrontRight", "RearLeft",
       "RearRight", "Lfe1", "Invalid", "Invalid">>,
     <<"FrontLeft", "FrontCenter", "FrontRight", "SideLeft",
       "SideRight", "RearCenter", "Invalid", "Lfe1">>,
     <<"FrontLeft", "FrontCenter", "FrontRight", "SideLeft",
       "SideRight", "RearLeft", "RearRight", "Lfe1">> >>

\* const FLAC_CHANNEL_POSITIONS: [[gst_audio::AudioChannelPosition; 8]; 8]
FLAC_CHANNEL_POSITIONS ==
  << <<"Mono", "Invalid", "Invalid", "Invalid",
       "Invalid", "Invalid", "Invalid", "Invalid">>,
     <<"FrontLeft", "FrontRight", "Invalid", "Invalid",
       "Invalid", "Invalid", "Invalid", "Invalid">>,
     <<"FrontLeft", "FrontCenter", "FrontRight", "Invalid",
       "Invalid", "Invalid", "Invalid", "Invalid">>,
     <<"FrontLeft", "FrontRight", "RearLeft", "RearRight",
       "Invalid", "Invalid", "Invalid", "Invalid">>,
     <<"FrontLeft", "FrontCenter", "FrontRight", "RearLeft",
       "RearRight", "Invalid", "Invalid", "Invalid">>,
     <<"FrontLeft", "FrontCenter", "FrontRight", "RearLeft",
       "RearRight", "Lfe1", "Invalid", "Invalid">>,
     <<"FrontLeft", "FrontCenter", "FrontRight", "SideLeft",
       "SideRight", "RearCenter", "Lfe1", "Invalid">>,
     <<"FrontLeft", "FrontCenter", "FrontRight", "SideLeft",
       "SideRight", "RearLeft", "RearRight", "Lfe1">> >>

\* an AudioInfo built with the rate and the channel count exchanged
AudioInfo_Swapped(format, rate, channels, positions) ==
  [format |-> format, rate |-> channels, channels |-> rate, positions |-> positions]

\* gst_audio::AudioInfo as built by AudioInfo::new(..).positions(..).build()
AudioInfo(format, rate, channels, positions) ==
  [format |-> format, rate |-> rate, channels |-> channels, positions |-> positions]

\* AudioInfo::depth(): the significant bits of the format (S20 is a format of
\* the library the element never selects)
Depth(format) ==
  CASE format = "S8" -> 8
    [] format = "S16" -> 16
    [] format = "S2432" -> 24
    [] format = "S32" -> 32
    [] format = "S20" -> 20

\* the match with one more arm: 20 bits per sample resolved to the 20-bit format
FormatOf_S20(bits_per_sample) ==
  CASE bits_per_sample = 8 -> Some("S8")
    [] bits_per_sample = 16 -> Some("S16")
    [] bits_per_sample = 20 -> Some("S20")
    [] bits_per_sample = 24 -> Some("S2432")
    [] bits_per_sample = 32 -> Some("S32")
    [] OTHER -> None

\* the match on streaminfo.bits_per_sample in get_gstaudioinfo
FormatOf(bits_per_sample) ==
  CASE bits_per_sample = 8 -> Some("S8")
    [] bits_per_sample = 16 -> Some("S16")
    [] bits_per_sample = 24 -> Some("S2432")
    [] bits_per_sample = 32 -> Some("S32")
    [] OTHER -> None

\* AudioInfoBuilder::build(): None unless there is one valid position per channel
AudioInfoBuild(format, rate, channels, positions) ==
  IF Len(positions) = channels /\ \A i \in 1..Len(positions) : positions[i] # "Invalid"
  THEN Some(AudioInfo(format, rate, channels, positions))
  ELSE None

\* the slice FLAC_CHANNEL_POSITIONS[index - 1][..index]
PositionsFor(index) == SliceTo(FLAC_CHANNEL_POSITIONS[index], index)

\* fn get_gstaudioinfo(streaminfo: claxon::metadata::StreamInfo)
get_gstaudioinfo(streaminfo) ==
  LET format == FormatOf(streaminfo.bits_per_sample)
      index == streaminfo.channels
  IN IF ~IsSome(format) THEN Err
     ELSE IF streaminfo.channels > 8 THEN Err
     ELSE IF index - 1 < 0 THEN Panic
     ELSE LET built == AudioInfoBuild(Unwrap(format), streaminfo.sample_rate,
                                      streaminfo.channels, PositionsFor(index))
          IN IF IsSome(built) THEN Ok(Unwrap(built)) ELSE Panic

\* ------------------------------------------------------------------ claxon::frame

\* claxon::frame::Block: channels * block_size samples, one channel after the other
Block(channels, block_size, seed) ==
  [channels |-> channels,
   block_size |-> block_size,
   buffer |-> [j \in 1..(channels * block_size) |->
                 Samples[((seed + j - 1) % Len(Samples)) + 1]]]

\* Block::len(): the number of samples of all channels together
BlockLen(block) == Len(block.buffer)

\* Block::sample(ch, sample) reads buffer[ch * block_size + sample]
SampleIndex(block, ch, sample) == ch * block.block_size + sample

\* outcomes of FrameReader::read_next_or_eof over the cursor
FrameEof == [tag |-> "Eof"]

FrameErr == [tag |-> "Err"]

FrameOk(block, position) == [tag |-> "Ok", block |-> block, position |-> position]

\* ------------------------------------------------------------------ repacking

\* the loop copying the block's buffer as it is, one channel after the other
Interleave_Planar(block, channels) == block.buffer

\* the chunks_exact_mut(channels) loop of handle_data: chunk o, slot c takes
\* result.sample(c, o); a trailing partial chunk keeps the zeros of vec![0; len]
Interleave(block, channels) ==
  LET len == BlockLen(block)
      full == (len \div channels) * channels
  IN [j \in 1..len |->
        IF j - 1 < full
        THEN block.buffer[SampleIndex(block, (j - 1) % channels, (j - 1) \div channels) + 1]
        ELSE 0]

\* whether a result.sample(c, o) of that loop indexes past the block's buffer
InterleavePanics(block, channels) ==
  \E o \in 0..((BlockLen(block) \div channels) - 1) :
    \E c \in 0..(channels - 1) : SampleIndex(block, c, o) >= BlockLen(block)

\* let v = if channels != 1 { .. } else { result.into_buffer() }
Repacked(block, channels) ==
  IF channels # 1 THEN Interleave(block, channels) ELSE block.buffer

\* a narrowing to 8 bits that saturates at the ends of the range
AsI8_Saturating(e) == IF e > 127 THEN 127 ELSE IF e < -128 THEN -128 ELSE e

\* *e as i8
AsI8(e) == LET u == e % 256 IN IF u >= 128 THEN u - 256 ELSE u

\* a narrowing that masks with 0x7FFF and so loses the sign
AsI16_Masked(e) == e % 32768

\* *e as i16
AsI16(e) == LET u == e % 65536 IN IF u >= 32768 THEN u - 65536 ELSE u

\* the bytes of one sample in a container of n bytes (two's complement, little endian)
SampleBytes(e, n) == [i \in 1..n |-> (e \div (2 ^ (8 * (i - 1)))) % 256]

RECURSIVE IntoByteVec(_, _)
\* v.into_byte_vec() for a vector of n-byte samples
IntoByteVec(v, n) ==
  IF v = <<>> THEN <<>>
  ELSE SampleBytes(Head(v), n) \o IntoByteVec(Tail(v), n)

\* let outbuf = if audio_info.depth() == 8 { .. } else if .. == 16 { .. } else { .. }
OutBuf(v, depth) ==
  IF depth = 8 THEN IntoByteVec([i \in 1..Len(v) |-> AsI8(v[i])], 1)
  ELSE IF depth = 16 THEN IntoByteVec([i \in 1..Len(v) |-> AsI16(v[i])], 2)
  ELSE IntoByteVec(v, 4)

\* ------------------------------------------------------------------ the element

\* struct State { streaminfo, audio_info }
State(streaminfo, audio_info) == [streaminfo |-> streaminfo, audio_info |-> audio_info]

\* a start that begins with a default CD-audio format instead of an empty state
StartState_Default ==
  Some(State(Some(StreamInfo(44100, 2, 16)),
             Some(AudioInfo("S16", 44100, 2, <<"FrontLeft", "FrontRight">>))))

\* what start stores in the state cell
StartState == Some(State(None, None))

\* a stop that empties the state instead of removing it
StopState_Empty == Some(State(None, None))

\* what stop stores in the state cell
StopState == None

\* Result<gst::FlowSuccess, gst::FlowError> values finish_frame may return
HostFlow == {"Ok", "Flushing"}

\* what the decoder-error report (gst_audio_decoder_error!) may return
DecErrFlow == {"Ok", "Error"}

\* The host's answers during one call: whether the buffer maps readable, how
\* set_output_format / negotiate end, what finish_frame returns and what the
\* decoder-error report returns.  No call asks for more after a failed map or
\* a failed negotiation, and none calls both finish_frame and the
\* decoder-error report, so those answers are not varied together.
HostAnswers ==
  {[map |-> FALSE, neg |-> "ok", ff |-> "Ok", de |-> "Ok"]} \cup
  {[map |-> TRUE, neg |-> n, ff |-> "Ok", de |-> "Ok"] :
     n \in {"set_output_format", "negotiate"}} \cup
  {[map |-> TRUE, neg |-> "ok", ff |-> f, de |-> "Ok"] : f \in HostFlow} \cup
  {[map |-> TRUE, neg |-> "ok", ff |-> "Ok", de |-> d] : d \in DecErrFlow}

\* The outcome of one call: the state cell afterwards, the value returned
\* ("Panic" for an abort), the branch of handle_frame taken, the reason of an
\* early return, the output buffers handed to the host, the frame counts given
\* to finish_frame and to the decoder-error report, whether an element error
\* was posted, the decoded block, whether a STREAMINFO header was parsed, and
\* the format for which set_output_format and negotiate both succeeded.
Outcome(st, ret, route, cause) ==
  [state |-> st, ret |-> ret, route |-> route, cause |-> cause,
   outbufs |-> <<>>, frames |-> 0, errors |-> 0, elem_error |-> FALSE,
   block |-> None, parsed |-> FALSE, negotiated |-> None]

\* finish_frame(None, 0): the input frame is not counted
FinishNoData_Zero(st, route, cause, h) == Outcome(st, h.ff, route, cause)

\* element.finish_frame(None, 1)
FinishNoData(st, route, cause, h) ==
  [Outcome(st, h.ff, route, cause) EXCEPT !.frames = 1]

\* element.finish_frame(Some(outbuf), 1)
FinishData(st, block, outbuf, h) ==
  [Outcome(st, h.ff, "data", "ok") EXCEPT
     !.frames = 1, !.outbufs = <<outbuf>>, !.block = Some(block)]

\* a panic inside a call: the state cell keeps its value, the session ends
Abort(st, route, cause) == Outcome(st, "Panic", route, cause)

\* the Err(error) arms of handle_streaminfo_header
HeaderError(st, cause, parsed) ==
  [Outcome(st, "Error", "header", cause) EXCEPT !.elem_error = TRUE, !.parsed = parsed]

\* fn handle_streaminfo_header(&self, element, state, indata)
handle_streaminfo_header(state, indata, h) ==
  LET parsed == get_claxon_streaminfo(indata)
  IN IF parsed.tag = "Panic" THEN Abort(Some(state), "header", "streaminfo_assert")
     ELSE IF parsed.tag = "Err" THEN HeaderError(Some(state), "parse", FALSE)
     ELSE
       LET streaminfo == parsed.v
           resolved == get_gstaudioinfo(streaminfo)
       IN IF resolved.tag = "Panic"
          THEN [Abort(Some(state), "header", "resolve_panic") EXCEPT !.parsed = TRUE]
          ELSE IF resolved.tag = "Err" THEN HeaderError(Some(state), "resolve", TRUE)
          ELSE IF h.neg # "ok"
          THEN [Outcome(Some(state), "NotNegotiated", "header", h.neg) EXCEPT
                  !.parsed = TRUE]
          ELSE [FinishNoData(Some(State(Some(streaminfo), Some(resolved.v))),
                             "header", "ok", h) EXCEPT
                  !.parsed = TRUE, !.negotiated = Some(resolved.v)]

\* the frame silently dropped through finish_frame(None, 1) instead of the error
DataNotNegotiated_Dropped(state) ==
  [Outcome(Some(state), "Ok", "data", "noformat") EXCEPT !.frames = 1]

\* state.audio_info.as_ref().ok_or(gst::FlowError::NotNegotiated)?
DataNotNegotiated(state) == Outcome(Some(state), "NotNegotiated", "data", "noformat")

\* a decode error that also forgets the negotiated format
DecodeError_Reset(state, h) ==
  [Outcome(Some(State(None, None)), h.de, "data", "decode") EXCEPT !.errors = 1]

\* the Err(err) arm of handle_data: gst_audio_decoder_error!(element, 1, ..)
DecodeError(state, h) ==
  [Outcome(Some(state), h.de, "data", "decode") EXCEPT !.errors = 1]

\* handle_data reporting a decoded frame that left bytes unread as a decode error
handle_data_LengthError(state, indata, frame, h) ==
  IF ~IsSome(state.audio_info) THEN DataNotNegotiated(state)
  ELSE
    LET audio_info == Unwrap(state.audio_info)
        channels == audio_info.channels
        depth == Depth(audio_info.format)
    IN IF channels > 8 THEN Abort(Some(state), "data", "unreachable_channels")
       ELSE IF depth \notin {8, 16, 24, 32}
       THEN Abort(Some(state), "data", "unreachable_depth")
       ELSE IF frame.tag = "Eof" THEN FinishNoData(Some(state), "data", "eof", h)
       ELSE IF frame.tag = "Err" THEN DecodeError(state, h)
       ELSE IF frame.position # Len(indata) THEN DecodeError(state, h)
       ELSE IF channels # 1 /\ InterleavePanics(frame.block, channels)
       THEN Abort(Some(state), "data", "sample_index")
       ELSE FinishData(Some(state), frame.block,
                       OutBuf(Repacked(frame.block, channels), depth), h)

\* fn handle_data(&self, element, state, indata); frame is what
\* reader.read_next_or_eof(buffer) returns for indata
handle_data(state, indata, frame, h) ==
  IF ~IsSome(state.audio_info) THEN DataNotNegotiated(state)
  ELSE
    LET audio_info == Unwrap(state.audio_info)
        channels == audio_info.channels
        depth == Depth(audio_info.format)
    IN IF channels > 8 THEN Abort(Some(state), "data", "unreachable_channels")
       ELSE IF depth \notin {8, 16, 24, 32}
       THEN Abort(Some(state), "data", "unreachable_depth")
       ELSE IF frame.tag = "Eof" THEN FinishNoData(Some(state), "data", "eof", h)
       ELSE IF frame.tag = "Err" THEN DecodeError(state, h)
       ELSE IF frame.position # Len(indata)
       THEN Abort(Some(state), "data", "position_assert")
       ELSE IF channels # 1 /\ InterleavePanics(frame.block, channels)
       THEN Abort(Some(state), "data", "sample_index")
       ELSE FinishData(Some(state), frame.block,
                       OutBuf(Repacked(frame.block, channels), depth), h)

\* the chain with the header test on the whole first byte (inmap[0] == 0x00)
Classify_FullByte(inmap) ==
  IF inmap = FLAC_MARKER THEN "marker"
  ELSE IF Len(inmap) < 1 THEN "panic"
  ELSE IF inmap[1] = 0 THEN "header"
  ELSE IF inmap[1] # 255 THEN "other"
  ELSE IF Len(inmap) < 2 THEN "panic"
  ELSE IF AndFC(inmap[2]) = 248 THEN "data"
  ELSE "other"

\* The if / else if chain of handle_frame over the mapped bytes: which branch
\* runs, or "panic" when inmap[0] or inmap[1] is out of bounds.
Classify(inmap) ==
  IF inmap = FLAC_MARKER THEN "marker"
  ELSE IF Len(inmap) < 1 THEN "panic"
  ELSE IF And7F(inmap[1]) = 0 THEN "header"
  ELSE IF inmap[1] # 255 THEN "other"
  ELSE IF Len(inmap) < 2 THEN "panic"
  ELSE IF AndFC(inmap[2]) = 248 THEN "data"
  ELSE "other"

\* fn handle_frame(&self, element, inbuf: Option<&gst::Buffer>); a buffer is
\* its bytes together with what the frame reader makes of them
handle_frame(cell, inbuf, h) ==
  IF ~IsSome(inbuf) THEN Outcome(cell, "Ok", "-", "absent")
  ELSE IF ~h.map THEN Outcome(cell, "Error", "-", "map")
  ELSE IF ~IsSome(cell) THEN Outcome(cell, "NotNegotiated", "-", "nostate")
  ELSE
    LET inmap == Unwrap(inbuf).bytes
        state == Unwrap(cell)
        route == Classify(inmap)
    IN CASE route = "panic" -> Abort(cell, "-", "index")
         [] route = "header" -> handle_streaminfo_header(state, inmap, h)
         [] route = "data" -> handle_data(state, inmap, Unwrap(inbuf).frame, h)
         [] OTHER -> FinishNoData(cell, route, "ok", h)

\* The outcome of set_format when the stream headers give nothing usable:
\* the locals streaminfo and audio_info are still None when the cell is written.
SetFormatEmpty(cell) == Outcome(Some(State(None, None)), "Ok", "-", "ok")

\* fn set_format(&self, element, caps); caps.streamheader is the "streamheader"
\* field of the caps' first structure (None when absent or not an array), each
\* of its values holding a buffer or something else
set_format(cell, caps, h) ==
  IF ~IsSome(caps.streamheader) THEN SetFormatEmpty(cell)
  ELSE
    LET streamheaders == Unwrap(caps.streamheader)
    IN IF Len(streamheaders) < 2 THEN SetFormatEmpty(cell)
       ELSE IF ~IsSome(streamheaders[1].buffer) THEN SetFormatEmpty(cell)
       ELSE IF ~h.map THEN Abort(cell, "-", "map_unwrap")
       ELSE
         LET inmap == Unwrap(streamheaders[1].buffer)
         IN IF Len(inmap) < 7 THEN Abort(cell, "-", "index")
            ELSE IF SliceTo(inmap, 7) # IDENT_TAG THEN SetFormatEmpty(cell)
            ELSE IF Len(inmap) < 13 THEN Abort(cell, "-", "index")
            ELSE
              LET parsed == get_claxon_streaminfo(SliceFrom(inmap, 13))
              IN IF parsed.tag = "Panic" THEN Abort(cell, "-", "streaminfo_assert")
                 ELSE IF parsed.tag = "Err" THEN SetFormatEmpty(cell)
                 ELSE
                   LET resolved == get_gstaudioinfo(parsed.v)
                   IN IF resolved.tag = "Panic"
                      THEN [Abort(cell, "-", "resolve_panic") EXCEPT !.parsed = TRUE]
                      ELSE IF resolved.tag = "Err"
                      THEN [SetFormatEmpty(cell) EXCEPT !.parsed = TRUE]
                      ELSE [Outcome(Some(State(Some(parsed.v), Some(resolved.v))),
                                    "Ok", "-", "ok") EXCEPT
                              !.parsed = TRUE,
                              !.negotiated =
                                IF h.neg = "ok" THEN Some(resolved.v) ELSE None]

\* ------------------------------------------------------------------ inputs

\* a gst::Buffer: its bytes and what the frame reader makes of them
Buffer(bytes, frame) == [bytes |-> bytes, frame |-> frame]

\* the STREAMINFO blocks the streams of the model carry: (is_last, rate, channels, bits)
HeaderParams ==
  {<<0, 44100, 2, 16>>, <<1, 8000, 1, 8>>, <<0, 44100, 1, 16>>,
   <<1, 48000, 3, 24>>, <<0, 96000, 2, 32>>, <<1, 655350, 8, 32>>,
   <<0, 44100, 2, 20>>}

HeaderBlocks == {StreamInfoBlock(p[1], p[2], p[3], p[4]) : p \in HeaderParams}

\* buffers that are not audio frames: the marker, well-formed and malformed
\* metadata blocks, short buffers
PlainBytes ==
  HeaderBlocks \cup
  {FLAC_MARKER,
   <<>>,
   <<255>>,
   <<255, 0, 1>>,
   <<4, 0, 0, 0>>,
   <<132, 0, 0, 2, 0, 0>>,
   StreamInfoBlock(0, 44100, 2, 16) \o <<0>>,
   SliceTo(StreamInfoBlock(0, 44100, 2, 16), 20),
   StreamInfoBlock(1, 0, 2, 16),
   <<0, 0, 0, 33>> \o SliceFrom(StreamInfoBlock(0, 44100, 2, 16), 4)}

\* the blocks the frame reader returns
Blocks ==
  {Block(c, k, seed) : c \in 1..MaxBlockChannels, k \in 1..MaxBlockSize,
                       seed \in SeedStarts}

\* the bytes of an audio frame: the sync code and a body standing for the
\* compressed samples
FrameBytes(sync2, body) == <<255, sync2>> \o body

\* audio frame buffers: for every block one the reader decodes whole, for the
\* blocks of one seed one it decodes leaving a trailing byte (what follows does
\* not depend on the samples), then one it rejects and one on which it
\* reports end of stream (the Ok(None) arm; the reader itself reports it only
\* when the cursor is already at the end)
FrameBuffers ==
  {Buffer(FrameBytes(248, <<b.channels, b.block_size, b.buffer[1] % 256>>),
          FrameOk(b, 5)) : b \in Blocks} \cup
  {Buffer(FrameBytes(249, <<b.channels, b.block_size, b.buffer[1] % 256, 0>>),
          FrameOk(b, 5)) :
     b \in {Block(c, k, 2) : c \in 1..MaxBlockChannels, k \in 1..MaxBlockSize}} \cup
  {Buffer(FrameBytes(248, <<255>>), FrameErr),
   Buffer(FrameBytes(251, <<>>), FrameEof)}

\* every buffer the host may pass to handle_frame
InBufs == {Buffer(b, FrameErr) : b \in PlainBytes} \cup FrameBuffers

\* the identification header of the out-of-band stream headers: the 7-byte
\* tag, the header count, the marker, then the STREAMINFO block
IdentBuf(block) == IDENT_TAG \o <<0, 2>> \o FLAC_MARKER \o block

HeaderValue(bytes) == [buffer |-> Some(bytes)]

NotABuffer == [buffer |-> None]

\* the caps the host may pass to set_format
CapsSet ==
  {[streamheader |-> None],
   [streamheader |-> Some(<<HeaderValue(IdentBuf(StreamInfoBlock(0, 44100, 2, 16)))>>)],
   [streamheader |-> Some(<<NotABuffer, HeaderValue(<<4, 0, 0, 0>>)>>)],
   [streamheader |-> Some(<<HeaderValue(<<127, 70, 76>>), HeaderValue(<<4, 0, 0, 0>>)>>)],
   [streamheader |-> Some(<<HeaderValue(SliceTo(IdentBuf(<<>>), 10)),
                            HeaderValue(<<4, 0, 0, 0>>)>>)],
   [streamheader |-> Some(<<HeaderValue(<<79, 103, 103, 83, 0, 0, 0, 0, 0, 0, 0, 0, 0>>),
                            HeaderValue(<<4, 0, 0, 0>>)>>)],
   [streamheader |-> Some(<<HeaderValue(IdentBuf(<<>>)), HeaderValue(<<4, 0, 0, 0>>)>>)],
   [streamheader |-> Some(<<HeaderValue(IdentBuf(StreamInfoBlock(0, 44100, 2, 16) \o <<0>>)),
                            HeaderValue(<<4, 0, 0, 0>>)>>)]} \cup
  {[streamheader |-> Some(<<HeaderValue(IdentBuf(b)), HeaderValue(<<4, 0, 0, 0>>)>>)] :
     b \in HeaderBlocks}

\* ------------------------------------------------------------------ state

VARIABLES
  state,      \* the state cell: AtomicRefCell<Option<State>>
  panicked,   \* a call has panicked: the session is over
  last,       \* the most recent call: its name, its input and its Outcome
  lifecycle,  \* history: "new", then "started" / "stopped" after the last start / stop
  formatted,  \* history: a set_format call has returned since the last start / stop
  hdrParsed,  \* history: a STREAMINFO header was parsed since the descriptor was last emptied
  afterDecodeError, \* history: the call before the last one reported a decode error
  borrow,     \* the borrow flag of the AtomicRefCell: the thread holding the
              \* exclusive borrow, or "none"
  calls,      \* per thread, the call in progress when calls are followed step by step
  borrowLog,  \* history: the last borrow attempt, the last return, whether two
              \* calls were ever in progress together
  probe       \* the input and the result of the helper under test (helper specifications)

vars == <<state, panicked, last, lifecycle, formatted, hdrParsed, afterDecodeError,
          borrow, calls, borrowLog, probe>>

\* the record of a call
Call(op, inbuf, prev, out) ==
  [op |-> op, inbuf |-> inbuf, prev |-> prev, ret |-> out.ret, route |-> out.route,
   cause |-> out.cause, outbufs |-> out.outbufs, frames |-> out.frames,
   errors |-> out.errors, elem_error |-> out.elem_error, block |-> out.block,
   parsed |-> out.parsed, negotiated |-> out.negotiated]

NoProbe == [input |-> None, output |-> None]

\* the threads on which the host calls into the element
Threads == {"streaming", "application"}

\* the host's answers when every request succeeds
AllOk == [map |-> TRUE, neg |-> "ok", ff |-> "Ok", de |-> "Ok"]

\* a call in progress: its arguments, how far it has come (entered, holding
\* the borrow, borrow released), its outcome once the state was read, the
\* number of borrows it took, and whether it held the borrow when it called
\* the host
NewCall(op, inbuf, caps, h) ==
  [op |-> op, pc |-> "entered", inbuf |-> inbuf, caps |-> caps, h |-> h,
   out |-> None, borrows |-> 0, host |-> "none"]

\* no call in progress on a thread
Idle == [NewCall("-", None, None, AllOk) EXCEPT !.pc = "idle"]

\* nothing attempted or returned so far
NoBorrowLog ==
  [attempt |-> [by |-> "-", found |-> "none", host |-> "none", aborted |-> FALSE],
   returned |-> [op |-> "-", borrows |-> 0, holding |-> FALSE],
   overlapped |-> FALSE]

\* no call is followed step by step
NoCalls ==
  /\ borrow = "none"
  /\ calls = [t \in Threads |-> Idle]
  /\ borrowLog = NoBorrowLog

\* ObjectSubclass::new(): the cell holds None
Init ==
  /\ state = None
  /\ panicked = FALSE
  /\ last = Call("new", None, None, Outcome(None, "Ok", "-", "ok"))
  /\ lifecycle = "new"
  /\ formatted = FALSE
  /\ hdrParsed = FALSE
  /\ afterDecodeError = FALSE
  /\ NoCalls
  /\ probe = NoProbe

\* fn start(&self, _element)
Start ==
  /\ ~panicked
  /\ state' = StartState
  /\ last' = Call("start", None, state, Outcome(StartState, "Ok", "-", "ok"))
  /\ lifecycle' = "started"
  /\ formatted' = FALSE
  /\ hdrParsed' = FALSE
  /\ afterDecodeError' = FALSE
  /\ UNCHANGED <<panicked, probe, borrow, calls, borrowLog>>

\* fn stop(&self, _element)
Stop ==
  /\ ~panicked
  /\ state' = StopState
  /\ last' = Call("stop", None, state, Outcome(StopState, "Ok", "-", "ok"))
  /\ lifecycle' = "stopped"
  /\ formatted' = FALSE
  /\ hdrParsed' = FALSE
  /\ afterDecodeError' = FALSE
  /\ UNCHANGED <<panicked, probe, borrow, calls, borrowLog>>

\* fn set_format(&self, element, caps)
SetFormat ==
  /\ ~panicked
  /\ \E out \in {set_format(state, caps, h) : caps \in CapsSet, h \in HostAnswers} :
          /\ state' = out.state
          /\ panicked' = (out.ret = "Panic")
          /\ last' = Call("set_format", None, state, out)
          /\ hdrParsed' = IF out.ret = "Panic" THEN hdrParsed
                           ELSE IsSome(Unwrap(out.state).streaminfo)
          /\ formatted' = (formatted \/ out.ret # "Panic")
  /\ afterDecodeError' = FALSE
  /\ UNCHANGED <<lifecycle, probe, borrow, calls, borrowLog>>

\* fn handle_frame(&self, element, inbuf)
HandleFrame ==
  /\ ~panicked
  /\ \E inbuf \in {None} \cup {Some(b) : b \in InBufs} :
       \E out \in {handle_frame(state, inbuf, h) : h \in HostAnswers} :
          /\ state' = out.state
          /\ panicked' = (out.ret = "Panic")
          /\ last' = Call("handle_frame", inbuf, state, out)
          /\ hdrParsed' = (hdrParsed \/ out.parsed)
  /\ afterDecodeError' = (last.op = "handle_frame" /\ last.cause = "decode")
  /\ UNCHANGED <<lifecycle, formatted, probe, borrow, calls, borrowLog>>

Next == Start \/ Stop \/ SetFormat \/ HandleFrame

Spec == Init /\ [][Next]_vars

\* ------------------------------------------------------------------ get_gstaudioinfo alone

\* sample rates of the descriptors handed to get_gstaudioinfo
ResolveRates == {8000, 44100}

\* the descriptors handed to get_gstaudioinfo: every u32 channel count and bit
\* depth up to the bounds, the element idle
ResolveInit ==
  /\ state = None
  /\ panicked = FALSE
  /\ last = Call("new", None, None, Outcome(None, "Ok", "-", "ok"))
  /\ lifecycle = "new"
  /\ formatted = FALSE
  /\ hdrParsed = FALSE
  /\ afterDecodeError = FALSE
  /\ NoCalls
  /\ \E rate \in ResolveRates, ch \in 0..MaxResolveChannels, bps \in 0..MaxResolveBits :
       probe = [input |-> Some(StreamInfo(rate, ch, bps)), output |-> None]

\* one call of get_gstaudioinfo on the descriptor
Resolve ==
  /\ IsSome(probe.input)
  /\ ~IsSome(probe.output)
  /\ probe' = [probe EXCEPT !.output = Some(get_gstaudioinfo(Unwrap(probe.input)))]
  /\ UNCHANGED <<state, panicked, last, lifecycle, formatted, hdrParsed,
                 afterDecodeError, borrow, calls, borrowLog>>

ResolveNext == Resolve

SpecResolve == ResolveInit /\ [][ResolveNext]_vars

\* ------------------------------------------------------------------ the state cell's borrow

\* the buffers and caps of the calls followed step by step
BorrowBlock == Block(2, 1, 2)

BorrowInBufs ==
  {Buffer(FLAC_MARKER, FrameErr),
   Buffer(StreamInfoBlock(0, 44100, 2, 16), FrameErr),
   Buffer(StreamInfoBlock(0, 44100, 2, 16) \o <<0>>, FrameErr),
   Buffer(FrameBytes(248, <<2, 1, BorrowBlock.buffer[1] % 256>>), FrameOk(BorrowBlock, 5)),
   Buffer(FrameBytes(248, <<255>>), FrameErr)}

BorrowCaps ==
  {[streamheader |-> None],
   [streamheader |-> Some(<<HeaderValue(IdentBuf(StreamInfoBlock(0, 44100, 2, 16))),
                            HeaderValue(<<4, 0, 0, 0>>)>>)],
   [streamheader |-> Some(<<HeaderValue(<<127, 70, 76>>), HeaderValue(<<4, 0, 0, 0>>)>>)]}

\* the calls the host may begin
BorrowCalls ==
  {NewCall(op, None, None, AllOk) : op \in {"start", "stop"}} \cup
  {NewCall("set_format", None, Some(caps), h) : caps \in BorrowCaps, h \in HostAnswers} \cup
  {NewCall("handle_frame", inbuf, None, h) :
     inbuf \in {None} \cup {Some(b) : b \in BorrowInBufs}, h \in HostAnswers}

\* what the call does with the state cell as it is now
CallOutcome(c) ==
  CASE c.op = "start" -> Outcome(StartState, "Ok", "-", "ok")
    [] c.op = "stop" -> Outcome(StopState, "Ok", "-", "ok")
    [] c.op = "set_format" -> set_format(state, Unwrap(c.caps), c.h)
    [] c.op = "handle_frame" -> handle_frame(state, c.inbuf, c.h)

\* whether the call reaches its borrow_mut(): handle_frame returns before it
\* for an absent or unreadable buffer, set_format may panic before it
TakesBorrow(c) ==
  CASE c.op \in {"start", "stop"} -> TRUE
    [] c.op = "set_format" -> CallOutcome(c).ret # "Panic"
    [] c.op = "handle_frame" -> IsSome(c.inbuf) /\ c.h.map

\* handle_frame giving the borrow back before it calls the host
ReleasePoint_Statement(op) == "statement"

\* where the guard of the borrow is dropped: start and stop borrow in a
\* temporary that lives for the assignment; set_format and handle_frame keep
\* the guard in a local, dropped when the function returns
ReleasePoint(op) == IF op \in {"start", "stop"} THEN "statement" ELSE "return"

\* whether the call, having read the state, calls the host: set_output_format
\* and negotiate, finish_frame, the decoder-error report, an element error
HostDue(c) ==
  /\ c.op = "handle_frame"
  /\ IsSome(c.out)
  /\ LET o == Unwrap(c.out)
     IN \/ o.frames + o.errors > 0
        \/ o.elem_error
        \/ o.cause \in {"set_output_format", "negotiate"}

\* the host begins a call on a thread that has none in progress
BeginCall(t) ==
  /\ ~panicked
  /\ calls[t].pc = "idle"
  /\ \E c \in BorrowCalls : calls' = [calls EXCEPT ![t] = c]
  /\ borrowLog' = [borrowLog EXCEPT
                     !.overlapped = @ \/ \E u \in Threads \ {t} : calls[u].pc # "idle"]
  /\ UNCHANGED <<state, panicked, borrow, last, lifecycle, formatted, hdrParsed,
                 afterDecodeError, probe>>

\* self.state.borrow_mut() on a cell that is not borrowed: the call holds the
\* borrow; start, stop and set_format assign through it at once
AcquireFree(t) ==
  LET c == calls[t]
      out == CallOutcome(c)
  IN /\ ~panicked
     /\ c.pc = "entered"
     /\ TakesBorrow(c)
     /\ borrow = "none"
     /\ borrow' = t
     /\ calls' = [calls EXCEPT ![t] =
                    [c EXCEPT !.pc = "held", !.out = Some(out), !.borrows = @ + 1]]
     /\ state' = IF c.op = "handle_frame" THEN state ELSE out.state
     /\ borrowLog' = [borrowLog EXCEPT
                        !.attempt = [by |-> c.op, found |-> "none", host |-> "none",
                                     aborted |-> FALSE]]
     /\ UNCHANGED <<panicked, last, lifecycle, formatted, hdrParsed,
                    afterDecodeError, probe>>

\* self.state.borrow_mut() on a cell another call has borrowed: AtomicRefCell
\* panics
AcquireBorrowed(t) ==
  LET c == calls[t]
  IN /\ ~panicked
     /\ c.pc = "entered"
     /\ TakesBorrow(c)
     /\ borrow # "none"
     /\ panicked' = TRUE
     /\ calls' = [calls EXCEPT ![t] = [c EXCEPT !.pc = "aborted"]]
     /\ borrowLog' = [borrowLog EXCEPT
                        !.attempt = [by |-> c.op, found |-> calls[borrow].op,
                                     host |-> calls[borrow].host, aborted |-> TRUE]]
     /\ UNCHANGED <<state, borrow, last, lifecycle, formatted, hdrParsed,
                    afterDecodeError, probe>>

\* handle_frame calls the host: set_output_format and negotiate, finish_frame,
\* the decoder-error report
HostCalls(t) ==
  LET c == calls[t]
  IN /\ ~panicked
     /\ HostDue(c)
     /\ c.host = "none"
     /\ \/ (ReleasePoint(c.op) = "return" /\ c.pc = "held")
        \/ (ReleasePoint(c.op) = "statement" /\ c.pc = "released")
     /\ calls' = [calls EXCEPT ![t] =
                    [c EXCEPT !.host = IF borrow = t THEN "held" ELSE "unheld"]]
     /\ UNCHANGED <<state, panicked, borrow, borrowLog, last, lifecycle, formatted,
                    hdrParsed, afterDecodeError, probe>>

\* the guard is dropped, at the end of the statement or of the function, by a
\* return or by the unwinding of a panic; what handle_frame wrote through the
\* borrow is in the cell
Release(t) ==
  LET c == calls[t]
  IN /\ ~panicked
     /\ c.pc = "held"
     /\ ReleasePoint(c.op) = "statement" \/ ~HostDue(c) \/ c.host # "none"
     /\ borrow' = "none"
     /\ state' = IF c.op = "handle_frame" THEN Unwrap(c.out).state ELSE state
     /\ panicked' = (Unwrap(c.out).ret = "Panic")
     /\ calls' = [calls EXCEPT ![t] = [c EXCEPT !.pc = "released"]]
     /\ UNCHANGED <<borrowLog, last, lifecycle, formatted, hdrParsed,
                    afterDecodeError, probe>>

\* the call ends: after its borrow was released, or without having borrowed
Return(t) ==
  LET c == calls[t]
  IN /\ ~panicked
     /\ \/ (c.pc = "released" /\ (~HostDue(c) \/ c.host # "none"))
        \/ (c.pc = "entered" /\ ~TakesBorrow(c))
     /\ panicked' = (c.pc = "entered" /\ CallOutcome(c).ret = "Panic")
     /\ calls' = [calls EXCEPT ![t] = Idle]
     /\ borrowLog' = [borrowLog EXCEPT
                        !.returned = [op |-> c.op, borrows |-> c.borrows,
                                      holding |-> borrow = t]]
     /\ UNCHANGED <<state, borrow, last, lifecycle, formatted, hdrParsed,
                    afterDecodeError, probe>>

BorrowNext ==
  \E t \in Threads :
    \/ BeginCall(t)
    \/ AcquireFree(t)
    \/ AcquireBorrowed(t)
    \/ HostCalls(t)
    \/ Release(t)
    \/ Return(t)

SpecBorrow == Init /\ [][BorrowNext]_vars

\* ------------------------------------------------------------------ properties

\* the last call was handle_frame with a buffer that was mapped readable
FrameCall ==
  /\ last.op = "handle_frame"
  /\ IsSome(last.inbuf)
  /\ last.cause # "map"

\* the bytes of the buffer of the last handle_frame call
LastBytes == Unwrap(last.inbuf).bytes

\* the first two bytes carry the audio-frame sync code and the buffer is
\* neither the marker nor a metadata block
IsAudioFrame(b) ==
  /\ b # FLAC_MARKER
  /\ Len(b) >= 2
  /\ b[1] = 255
  /\ b[2] \div 4 = 62

\* a state cell that holds no output format
NoOutputFormat(cell) == ~IsSome(cell) \/ ~IsSome(Unwrap(cell).audio_info)

\* C1: an audio frame handled while the state holds no output format fails
\* with NotNegotiated, hands no output buffer to the host and leaves the state
\* cell as it was.
C1_NotNegotiatedFrame ==
  (FrameCall /\ IsAudioFrame(LastBytes) /\ NoOutputFormat(last.prev))
    => /\ last.ret = "NotNegotiated"
       /\ last.outbufs = <<>>
       /\ state = last.prev

C1_Witness ==
  /\ FrameCall
  /\ IsAudioFrame(LastBytes)
  /\ IsSome(last.prev)
  /\ ~IsSome(Unwrap(last.prev).audio_info)
  /\ last.ret = "NotNegotiated"

\* C2: every output buffer and every decoded frame comes after a successfully
\* parsed STREAMINFO header (in-band or from set_format) since the descriptor
\* was last emptied by start, stop or set_format, and the descriptor is known
\* when a frame is decoded.
C2_DecodeAfterHeader ==
  (last.op = "handle_frame" /\ (last.outbufs # <<>> \/ IsSome(last.block)))
    => /\ hdrParsed
       /\ IsSome(last.prev)
       /\ IsSome(Unwrap(last.prev).streaminfo)

C2_Witness ==
  /\ last.op = "handle_frame"
  /\ last.outbufs # <<>>
  /\ hdrParsed
  /\ formatted
  /\ IsSome(Unwrap(state).streaminfo)

\* C3 as stated: the state cell exists exactly between a start and the
\* following stop, and outside of that every handle_frame call with a buffer
\* fails with NotNegotiated.
C3_Original ==
  /\ IsSome(state) <=> (lifecycle = "started")
  /\ (last.op = "handle_frame" /\ IsSome(last.inbuf) /\ lifecycle # "started")
       => last.ret = "NotNegotiated"

\* C3 amended: start creates the state cell empty, stop removes it, set_format
\* creates or replaces it as well, handle_frame neither creates nor removes it;
\* the cell exists exactly when a start or a set_format has run since the last
\* stop, and while it does not exist every handle_frame call whose buffer maps
\* readable fails with NotNegotiated and produces nothing.
C3_Lifecycle ==
  /\ IsSome(state) <=> (lifecycle = "started" \/ formatted)
  /\ last.op = "start" => state = Some(State(None, None))
  /\ last.op = "stop" => state = None
  /\ last.op = "handle_frame" => (IsSome(state) <=> IsSome(last.prev))
  /\ (FrameCall /\ lifecycle # "started" /\ ~formatted)
       => /\ last.ret = "NotNegotiated"
          /\ last.outbufs = <<>>
          /\ last.frames = 0

C3_Witness ==
  /\ FrameCall
  /\ lifecycle = "stopped"
  /\ ~formatted
  /\ last.ret = "NotNegotiated"

\* the last call ran inside a session and found a state cell
InSession == lifecycle = "started" /\ IsSome(last.prev)

\* C4 as stated: inside a session the stored descriptor and format change only
\* in a step that parses a metadata header; any other handle_frame call and a
\* set_format call without usable stream headers leave them as they were.
C4_Original ==
  (InSession /\ last.op \in {"handle_frame", "set_format"} /\ ~last.parsed)
    => state = last.prev

\* C4 amended: inside a session a handle_frame call changes the stored
\* descriptor and format only when it parses a metadata header, and a
\* set_format call always replaces them: with both absent when it carries no
\* usable stream headers, with the parsed descriptor and its format otherwise.
C4_ChangeOnlyByHeader ==
  InSession =>
    /\ (last.op = "handle_frame" /\ ~(last.route = "header" /\ last.parsed))
         => state = last.prev
    /\ (last.op = "set_format" /\ last.ret # "Panic")
         => /\ IsSome(state)
            /\ IsSome(Unwrap(state).streaminfo) <=> IsSome(Unwrap(state).audio_info)
            /\ ~last.parsed => state = Some(State(None, None))

C4_Witness ==
  /\ InSession
  /\ last.op = "set_format"
  /\ ~last.parsed
  /\ IsSome(Unwrap(last.prev).audio_info)
  /\ state = Some(State(None, None))

\* C5 as stated: every handle_frame call with a buffer hands at most one
\* output buffer to the host and accounts for exactly one input frame, also
\* when it returns an error.
C5_Original ==
  (last.op = "handle_frame" /\ IsSome(last.inbuf))
    => /\ Len(last.outbufs) <= 1
       /\ last.frames + last.errors = 1

\* the reasons for which handle_frame returns before finish_frame and before
\* the decoder-error report
EarlyCauses ==
  {"map", "nostate", "noformat", "parse", "resolve", "set_output_format", "negotiate"}

\* C5 amended: every handle_frame call with a buffer hands at most one output
\* buffer to the host, and only for an audio frame; it accounts for exactly one
\* input frame when it returns through finish_frame or the decoder-error
\* report, and for none when it returns early (unreadable buffer, no state, no
\* output format, header parse or resolve error, failed set_output_format or
\* negotiate) or aborts.
C5_Accounting ==
  (last.op = "handle_frame" /\ IsSome(last.inbuf))
    => /\ Len(last.outbufs) <= 1
       /\ Len(last.outbufs) = 1 => IsAudioFrame(LastBytes)
       /\ last.frames + last.errors =
            IF last.cause \in EarlyCauses \/ last.ret = "Panic" THEN 0 ELSE 1
       /\ last.cause = "ok" => last.frames = 1
       /\ last.cause \in EarlyCauses => last.ret \in {"Error", "NotNegotiated"}

C5_Witness ==
  /\ FrameCall
  /\ last.cause = "decode"
  /\ last.ret = "Error"
  /\ last.frames + last.errors = 1

\* C6: handle_frame tests the marker first, then the metadata header (low 7
\* bits of byte 0 are zero), then the audio-frame sync code, then anything
\* else: a STREAMINFO-tagged block goes to header handling and never to frame
\* decoding, and the marker goes to neither.
C6_ClassificationOrder ==
  (FrameCall /\ IsSome(last.prev) /\ last.cause # "index")
    => /\ LastBytes = FLAC_MARKER
            => (last.route = "marker" /\ ~last.parsed /\ ~IsSome(last.block))
       /\ (LastBytes # FLAC_MARKER /\ LastBytes[1] % 128 = 0)
            => (last.route = "header" /\ ~IsSome(last.block) /\ last.outbufs = <<>>)
       /\ IsAudioFrame(LastBytes) => last.route = "data"
       /\ (LastBytes # FLAC_MARKER /\ LastBytes[1] % 128 # 0 /\ ~IsAudioFrame(LastBytes))
            => last.route = "other"

C6_Witness ==
  /\ FrameCall
  /\ last.route = "header"
  /\ last.parsed
  /\ LastBytes[1] = 128

\* the descriptor and the result of the resolver specification
ProbeIn == Unwrap(probe.input)

ProbeOut == Unwrap(probe.output)

Resolved == IsSome(probe.input) /\ IsSome(probe.output)

\* the format tag the spec gives for a bit depth
ExpectedFormat(bps) ==
  CASE bps = 8 -> "S8" [] bps = 16 -> "S16" [] bps = 24 -> "S2432" [] bps = 32 -> "S32"

\* C7 as stated: get_gstaudioinfo succeeds with the mapped format for bit
\* depths 8, 16, 24, 32 and 1 to 8 channels, and returns an error (no format,
\* no abort) for every other descriptor.
C7_ResolverTotal ==
  Resolved =>
    IF ProbeIn.bits_per_sample \in {8, 16, 24, 32} /\ ProbeIn.channels \in 1..8
    THEN /\ ProbeOut.tag = "Ok"
         /\ ProbeOut.v.format = ExpectedFormat(ProbeIn.bits_per_sample)
         /\ ProbeOut.v.rate = ProbeIn.sample_rate
         /\ ProbeOut.v.channels = ProbeIn.channels
    ELSE ProbeOut.tag = "Err"

\* C8: for 1 to 8 channels the positions of the output format are the first n
\* entries of row n - 1 of the table: n entries, none Invalid, and every later
\* entry of that row is Invalid.
C8_ChannelPositions ==
  (Resolved /\ ProbeIn.bits_per_sample \in {8, 16, 24, 32} /\ ProbeIn.channels \in 1..8)
    => LET n == ProbeIn.channels
           row == FLAC_CHANNEL_POSITIONS[n]
       IN /\ ProbeOut.tag = "Ok"
          /\ Len(ProbeOut.v.positions) = n
          /\ \A i \in 1..n : /\ ProbeOut.v.positions[i] = row[i]
                              /\ ProbeOut.v.positions[i] # "Invalid"
          /\ \A i \in (n + 1)..8 : row[i] = "Invalid"

C8_Witness ==
  /\ Resolved
  /\ ProbeIn.channels = 7
  /\ ProbeOut.tag = "Ok"
  /\ ProbeOut.v.positions[7] = "Lfe1"

\* the signed value of the i-th container of n little-endian bytes of an output buffer
ContainerAt(bytes, n, i) ==
  LET at(j) == bytes[(i - 1) * n + j]
      low == IF n = 1 THEN at(1)
             ELSE IF n = 2 THEN at(1) + 256 * at(2)
             ELSE at(1) + 256 * at(2) + 65536 * at(3)
      top == at(n)
  IN IF n = 4
     THEN (IF top >= 128 THEN (top - 256) * 16777216 ELSE top * 16777216) + low
     ELSE IF top >= 128 THEN low - 2 ^ (8 * n) ELSE low

\* an output buffer read back as a sequence of signed n-byte integers
ReadSamples(bytes, n) == [i \in 1..(Len(bytes) \div n) |-> ContainerAt(bytes, n, i)]

\* the bytes per sample of the container of a bit depth
ContainerBytes(depth) == IF depth = 8 THEN 1 ELSE IF depth = 16 THEN 2 ELSE 4

\* x reduced to a two's-complement value of 8 * n bits
Truncated(x, n) ==
  IF n = 4 THEN x
  ELSE LET u == x % (2 ^ (8 * n))
       IN IF u >= 2 ^ (8 * n - 1) THEN u - 2 ^ (8 * n) ELSE u

\* the last call decoded a frame; its block, the negotiated format and the output
Decoded == last.op = "handle_frame" /\ IsSome(last.block)

LastBlock == Unwrap(last.block)

LastFormat == Unwrap(Unwrap(last.prev).audio_info)

LastOutput ==
  ReadSamples(last.outbufs[1], ContainerBytes(Depth(LastFormat.format)))

\* C9: for a decoded frame of channel_count channels (the negotiated count)
\* with k samples each, the output holds k * channel_count samples and position
\* i * channel_count + c holds sample i of channel c; a mono frame is output
\* in its decoded order.
C9_Interleaving ==
  (Decoded /\ LastBlock.channels = LastFormat.channels)
    => LET n == LastFormat.channels
           k == LastBlock.block_size
           w == ContainerBytes(Depth(LastFormat.format))
       IN /\ Len(LastOutput) = k * n
          /\ \A i \in 0..(k - 1) : \A c \in 0..(n - 1) :
               LastOutput[i * n + c + 1] = Truncated(LastBlock.buffer[c * k + i + 1], w)
          /\ n = 1 => \A i \in 1..k : LastOutput[i] = Truncated(LastBlock.buffer[i], w)

C9_Witness ==
  /\ Decoded
  /\ LastBlock.channels = LastFormat.channels
  /\ LastFormat.channels = 2
  /\ LastBlock.block_size = 2
  /\ LastOutput[2] = LastBlock.buffer[3]
  /\ LastOutput[2] # LastBlock.buffer[2]

\* every sample of the block lies in lo..hi
AllWithin(block, lo, hi) ==
  \A i \in 1..Len(block.buffer) : block.buffer[i] >= lo /\ block.buffer[i] <= hi

\* C10: mono samples within the 16-bit signed range, repacked with the 16-bit
\* format and read back as 16-bit signed integers, give the original values in
\* order; so do samples within the 8-bit signed range with the 8-bit format.
C10_RoundTrip ==
  (Decoded /\ LastBlock.channels = 1 /\ LastFormat.channels = 1)
    => /\ (Depth(LastFormat.format) = 16 /\ AllWithin(LastBlock, -32768, 32767))
            => ReadSamples(last.outbufs[1], 2) = LastBlock.buffer
       /\ (Depth(LastFormat.format) = 8 /\ AllWithin(LastBlock, -128, 127))
            => ReadSamples(last.outbufs[1], 1) = LastBlock.buffer

C10_Witness ==
  /\ Decoded
  /\ LastBlock.channels = 1
  /\ LastFormat.format = "S16"
  /\ LastBlock.buffer = <<32767, -32768>>
  /\ ReadSamples(last.outbufs[1], 2) = <<32767, -32768>>

\* a buffer taken for a metadata header in which the parser reads a STREAMINFO
\* block and stops before the end of the buffer
TrailingHeader(b) ==
  /\ Classify(b) = "header"
  /\ IsSome(MetadataNext(b).streaminfo)
  /\ MetadataNext(b).position # Len(b)

\* C11: a metadata header with bytes left after the parsed block is rejected
\* like any other malformed header: the call returns the stream decode error
\* to the host, posts the element error and leaves the state as it was; the
\* session is not aborted.
C11_TrailingRejected ==
  (FrameCall /\ IsSome(last.prev) /\ TrailingHeader(LastBytes))
    => /\ last.ret = "Error"
       /\ last.elem_error
       /\ state = last.prev
       /\ ~panicked

\* the frame the reader made of the buffer of the last handle_frame call
LastFrame == Unwrap(last.inbuf).frame

\* the last call ran handle_data with an output format stored
DataCall == FrameCall /\ last.route = "data" /\ ~NoOutputFormat(last.prev)

\* C12: handle_data keeps three outcomes apart.  A frame the reader rejects is
\* a per-frame decode error reported to the host, without abort, whatever the
\* length of the buffer; end of stream gives no output and one handled frame,
\* without abort; a frame decoded without consuming exactly the whole buffer
\* aborts, and is neither reported as a decode error nor given an output
\* buffer.
C12_ThreeOutcomes ==
  DataCall =>
    /\ LastFrame.tag = "Err"
         => /\ last.cause = "decode"
            /\ last.ret \in DecErrFlow
            /\ last.errors = 1
            /\ last.frames = 0
            /\ last.outbufs = <<>>
            /\ ~panicked
    /\ LastFrame.tag = "Eof"
         => /\ last.cause = "eof"
            /\ last.ret \in HostFlow
            /\ last.errors = 0
            /\ last.frames = 1
            /\ last.outbufs = <<>>
            /\ ~panicked
    /\ (LastFrame.tag = "Ok" /\ LastFrame.position # Len(LastBytes))
         => /\ last.cause = "position_assert"
            /\ last.ret = "Panic"
            /\ panicked
            /\ last.errors = 0
            /\ last.frames = 0
            /\ last.outbufs = <<>>

C12_Witness ==
  /\ DataCall
  /\ LastFrame.tag = "Ok"
  /\ LastFrame.position + 1 = Len(LastBytes)
  /\ last.ret = "Panic"
  /\ last.outbufs = <<>>

\* a frame the reader decodes whole, of as many channels as the output format
WellFormedFrame ==
  /\ DataCall
  /\ LastFrame.tag = "Ok"
  /\ LastFrame.position = Len(LastBytes)
  /\ LastFrame.block.channels = LastFormat.channels

\* C13: a frame the reader rejects leaves the state as it was, and the session
\* goes on: a well-formed audio frame handled right after it is decoded into
\* exactly one output buffer in the format that was negotiated before, with no
\* header in between.
C13_ContinueAfterDecodeError ==
  /\ (DataCall /\ last.cause = "decode") => (state = last.prev /\ ~panicked)
  /\ (afterDecodeError /\ WellFormedFrame)
       => /\ last.cause = "ok"
          /\ last.ret \in HostFlow
          /\ Len(last.outbufs) = 1
          /\ last.frames = 1
          /\ state = last.prev
          /\ Len(last.outbufs[1]) =
               BlockLen(LastBlock) * ContainerBytes(Depth(LastFormat.format))

C13_Witness ==
  /\ afterDecodeError
  /\ WellFormedFrame
  /\ LastFormat.channels = 2
  /\ Len(last.outbufs) = 1

\* C14: set_format never fails.  Whatever the stream headers hold and whatever
\* the host answers to set_output_format and negotiate, the call returns
\* success without aborting; and when early negotiation did not succeed the
\* state is left without an output format, which the first in-band STREAMINFO
\* header handled by handle_frame then establishes.
C14_SetFormatNeverFails ==
  last.op = "set_format"
    => /\ last.ret = "Ok"
       /\ ~panicked
       /\ ~IsSome(last.negotiated) => NoOutputFormat(state)

\* C15: in every reachable state that holds an output format its channel count
\* lies in 1..8 and its depth is 8, 16, 24 or 32, whatever bytes the buffers
\* held; so neither of the two checks at the top of handle_data ever fires.
C15_FormatWithinRange ==
  /\ ~NoOutputFormat(state)
       => /\ Unwrap(Unwrap(state).audio_info).channels \in 1..8
          /\ Depth(Unwrap(Unwrap(state).audio_info).format) \in {8, 16, 24, 32}
  /\ last.cause \notin {"unreachable_channels", "unreachable_depth"}

C15_Witness ==
  /\ DataCall
  /\ LastFormat.channels = 8
  /\ Depth(LastFormat.format) = 32
  /\ last.cause = "decode"
  /\ state = last.prev

\* the last call stored the output format the state holds: a set_format call
\* that returned, or a handle_frame call that changed the cell
StoredFormat ==
  /\ last.ret # "Panic"
  /\ ~NoOutputFormat(state)
  /\ \/ last.op = "set_format"
     \/ (last.op = "handle_frame" /\ state # last.prev)

\* C16: an output format held by the state is a negotiated one: at the step
\* that stored it, by an in-band header or by set_format from the stream
\* headers, set_output_format and negotiate had both succeeded for it.
C16_NegotiatedWhenStored ==
  StoredFormat => last.negotiated = Unwrap(state).audio_info

\* the last call ran handle_streaminfo_header
HeaderCall == FrameCall /\ last.route = "header" /\ IsSome(last.prev)

\* the descriptor parsed from the buffer of the last call, and its resolution
LastParsed == get_claxon_streaminfo(LastBytes)

LastResolved == get_gstaudioinfo(LastParsed.v)

\* C17: in-band header handling is all-or-nothing.  The descriptor and the
\* format are written only after parsing, resolution, set_output_format and
\* negotiate have all succeeded, and then both are written; when any of the
\* four does not succeed the call returns an error to the host and both fields
\* keep the values they had.
C17_HeaderAllOrNothing ==
  HeaderCall =>
    /\ (state # last.prev \/ last.cause = "ok")
         => /\ LastParsed.tag = "Ok"
            /\ LastResolved.tag = "Ok"
            /\ last.negotiated = Some(LastResolved.v)
            /\ state = Some(State(Some(LastParsed.v), Some(LastResolved.v)))
    /\ last.cause # "ok"
         => /\ state = last.prev
            /\ last.ret \in {"Error", "NotNegotiated"}
            /\ ~panicked

\* the samples of the last decoded frame in output order, before narrowing
LastRepacked == Repacked(LastBlock, LastFormat.channels)

\* C18: every decoded sample x is narrowed to the container of the negotiated
\* depth: x mod 2^8 read as a two's-complement 8-bit value for depth 8, x mod
\* 2^16 read as a 16-bit value for depth 16, x itself in a 32-bit container for
\* depths 24 and 32; the output buffer is sample_count * 1, 2 or 4 bytes long.
C18_Narrowing ==
  Decoded =>
    LET n == ContainerBytes(Depth(LastFormat.format))
    IN /\ n = (CASE Depth(LastFormat.format) = 8 -> 1
                 [] Depth(LastFormat.format) = 16 -> 2
                 [] Depth(LastFormat.format) \in {24, 32} -> 4)
       /\ Len(last.outbufs[1]) = Len(LastRepacked) * n
       /\ \A i \in 1..Len(LastRepacked) :
            ContainerAt(last.outbufs[1], n, i) = Truncated(LastRepacked[i], n)

C18_Witness ==
  /\ Decoded
  /\ Depth(LastFormat.format) = 8
  /\ LastRepacked = <<128, -129>>
  /\ last.outbufs[1] = <<128, 127>>
  /\ ReadSamples(last.outbufs[1], 1) = <<-128, 127>>

\* C19: the state holds a stream descriptor exactly when it holds an output
\* format, and the format is the one resolved from that descriptor: the same
\* sample rate, the same channel count, and the sample format of the
\* descriptor's bits per sample.
C19_DescriptorMatchesFormat ==
  IsSome(state) =>
    LET s == Unwrap(state)
    IN /\ IsSome(s.streaminfo) <=> IsSome(s.audio_info)
       /\ IsSome(s.audio_info)
            => /\ Unwrap(s.audio_info).rate = Unwrap(s.streaminfo).sample_rate
               /\ Unwrap(s.audio_info).channels = Unwrap(s.streaminfo).channels
               /\ Depth(Unwrap(s.audio_info).format) = Unwrap(s.streaminfo).bits_per_sample
               /\ Unwrap(s.audio_info).format =
                    (CASE Unwrap(s.streaminfo).bits_per_sample = 8 -> "S8"
                       [] Unwrap(s.streaminfo).bits_per_sample = 16 -> "S16"
                       [] Unwrap(s.streaminfo).bits_per_sample = 24 -> "S2432"
                       [] Unwrap(s.streaminfo).bits_per_sample = 32 -> "S32")
               /\ get_gstaudioinfo(Unwrap(s.streaminfo)) = Ok(Unwrap(s.audio_info))

C19_Witness ==
  /\ IsSome(state)
  /\ Unwrap(state).streaminfo = Some(StreamInfo(48000, 3, 24))
  /\ IsSome(Unwrap(state).audio_info)
  /\ Unwrap(Unwrap(state).audio_info).format = "S2432"
  /\ Unwrap(Unwrap(state).audio_info).rate = 48000
  /\ last.op = "set_format"

\* C20: every call takes the exclusive borrow of the state cell at most once
\* and no longer holds it when it has returned; while the host never has two
\* calls in progress together no borrow attempt finds the cell borrowed; a
\* borrow attempt that finds the cell borrowed aborts, and handle_frame holds
\* the borrow whenever it calls the host (set_output_format, negotiate,
\* finish_frame), so that a start, stop or set_format borrowing meanwhile aborts.
C20_ExclusiveBorrow ==
  /\ \A t \in Threads :
       /\ calls[t].borrows <= 1
       /\ calls[t].pc = "idle" => borrow # t
       /\ calls[t].pc \in {"held"} <=> borrow = t
       /\ calls[t].host # "unheld"
  /\ borrowLog.returned.borrows <= 1
  /\ ~borrowLog.returned.holding
  /\ ~borrowLog.overlapped => borrowLog.attempt.found = "none"
  /\ borrowLog.attempt.found # "none" <=> borrowLog.attempt.aborted
  /\ borrowLog.attempt.aborted => panicked

C20_Witness ==
  /\ borrowLog.attempt.by \in {"start", "stop", "set_format"}
  /\ borrowLog.attempt.found = "handle_frame"
  /\ borrowLog.attempt.host = "held"
  /\ borrowLog.attempt.aborted
  /\ borrowLog.returned.op = "handle_frame"
  /\ borrowLog.returned.borrows = 1
  /\ panicked

====
